---- MODULE Spec2Model ----
(***************************************************************************)
(* assetfinder (src/assetfinder/main.go): main fans a domain out to the    *)
(* registered fetch functions, one goroutine each, merges what they return *)
(* over the unbuffered channel out, and prints every cleaned name once.    *)
(*                                                                         *)
(* A Go string is modelled as the sequence of its characters, each a       *)
(* one-character string: "*.a" is <<"*", ".", "a">>.                       *)
(***************************************************************************)
EXTENDS Integers, Sequences, FiniteSets, TLC

\* ------------------------------------------------------------------ bounds

\* The most fetch functions registered in sources in a "bounded" run.
MaxSources == 2

\* The most names all the fetches of a "bounded" run return together.
MaxTotal == 2

\* The longest string cleanDomain is applied to in SpecClean.
MaxLen == 4

\* The raw names a fetch can return: case and prefix variants of "x", and
\* names that stay apart after cleaning.
RawNames ==
    { <<"X">>, <<"*", ".", "x">>, <<".", "y">>, <<"%", "z">> }

\* The "resilience" runs (spec section 8): three sources, each of which fails
\* or returns its own two names; no two of the six names clean to the same.
ResilienceNames ==
    << << <<"A", ".", "d">>, <<"*", ".", "b">> >>,
       << <<"f">>, <<"%", "g", ".", "d">> >>,
       << <<".", "c">>, <<"e", ".", "D">> >> >>

\* The characters of the strings cleanDomain is applied to in SpecClean.
Alphabet == {"*", "%", ".", "a", "A"}

\* The command line's first argument: absent (the empty string) or a domain.
Domains == { <<>>, <<"d">> }

\* ------------------------------------------------------------- cleanDomain

Uppers ==
    << "A", "B", "C", "D", "E", "F", "G", "H", "I", "J", "K", "L", "M",
       "N", "O", "P", "Q", "R", "S", "T", "U", "V", "W", "X", "Y", "Z" >>

Lowers ==
    << "a", "b", "c", "d", "e", "f", "g", "h", "i", "j", "k", "l", "m",
       "n", "o", "p", "q", "r", "s", "t", "u", "v", "w", "x", "y", "z" >>

\* strings.ToLower on one ASCII character.
ToLowerChar(c) ==
    IF \E i \in 1..26 : Uppers[i] = c
    THEN Lowers[CHOOSE i \in 1..26 : Uppers[i] = c]
    ELSE c

\* strings.ToLower.
ToLower(d) == [i \in 1..Len(d) |-> ToLowerChar(d[i])]

\* d[1:]
Rest(d) == SubSeq(d, 2, Len(d))

\* cleanDomain without lines 205-207.
cleanDomainNoDot(d) ==
    LET d1 == ToLower(d)
    IN  IF Len(d1) < 2
        THEN d1
        ELSE IF d1[1] = "*" \/ d1[1] = "%" THEN Rest(d1) ELSE d1

\* cleanDomain without line 194.
cleanDomainNoLower(d) ==
    IF Len(d) < 2
    THEN d
    ELSE LET d2 == IF d[1] = "*" \/ d[1] = "%" THEN Rest(d) ELSE d
             d3 == IF d2[1] = "." THEN Rest(d2) ELSE d2
         IN  d3

\* cleanDomain, line by line. d[0] in the source is d[1] here; an index past
\* the end of the string is an error in both.
cleanDomain(d) ==
    LET d1 == ToLower(d)
    IN  IF Len(d1) < 2
        THEN d1
        ELSE LET d2 == IF d1[1] = "*" \/ d1[1] = "%" THEN Rest(d1) ELSE d1
                 d3 == IF d2[1] = "." THEN Rest(d2) ELSE d2
             IN  d3

\* IndexedLens without the return of lines 197-199.
IndexedLensNoGuard(d) ==
    LET d1 == ToLower(d)
    IN  IF Len(d1) = 0
        THEN << 0 >>
        ELSE LET d2 == IF d1[1] = "*" \/ d1[1] = "%" THEN Rest(d1) ELSE d1
             IN  << Len(d1), Len(d2) >>

\* len(d) at the index expressions d[0] of lines 201 and 205 as cleanDomain
\* reaches them; an expression reached with len(d) = 0 panics.
IndexedLens(d) ==
    LET d1 == ToLower(d)
    IN  IF Len(d1) < 2
        THEN << >>
        ELSE LET d2 == IF d1[1] = "*" \/ d1[1] = "%" THEN Rest(d1) ELSE d1
             IN  << Len(d1), Len(d2) >>

\* ------------------------------------------------------------------- state

VARIABLES
    domain,     \* flag.Arg(0)
    nsrc,       \* len(sources): the fetch functions are 1..nsrc
    world,      \* what the fetches of this run can return (see MayReturn)
    mainpc,     \* where main is
    k,          \* the launch loop's position in sources
    out,        \* the channel out: "nil", "open" or "closed"
    closes,     \* how many times close(out) has run
    wg,         \* the WaitGroup's counter
    ppc,        \* where each source's goroutine is
    names,      \* names, as each goroutine's fn(domain) returned it
    err,        \* err, as each goroutine's fn(domain) returned it
    idx,        \* each goroutine's position in its range over names
    calls,      \* the domains each fetch function has been called with
    cpc,        \* where the closing goroutine is
    cur,        \* n in main's range over out
    printed,    \* the map printed (its keys)
    stdout,     \* the lines written to standard output
    stderr,     \* the sources whose error was written to standard error
    received,   \* what main's range has received: <<source, name>> in order
    arg,        \* cleanDomain's argument        (SpecClean)
    ret,        \* cleanDomain(arg)              (SpecClean)
    ret2,       \* cleanDomain(cleanDomain(arg)) (SpecClean)
    cdpc        \* how often cleanDomain has been applied (SpecClean)

pipeVars ==
    << domain, nsrc, world, mainpc, k, out, closes, wg, ppc, names, err, idx,
       calls, cpc, cur, printed, stdout, stderr, received >>

cleanVars == << arg, ret, ret2, cdpc >>

vars == << pipeVars, cleanVars >>

Sources == 1..nsrc

\* The line main prints when no domain is given.
DiagLine == << "no domain specified" >>

\* All sequences over S of length at most n.
SeqsUpTo(S, n) == UNION { [1..m -> S] : m \in 0..n }

\* The names the fetches have returned so far, counted.
RECURSIVE TotalLen(_, _)
TotalLen(f, n) == IF n = 0 THEN 0 ELSE Len(f[n]) + TotalLen(f, n - 1)

\* What a fetch can return: names and whether err is non-nil.
Outcomes(S, n) == SeqsUpTo(S, n) \X BOOLEAN

\* What source p's fetch can return in this run. A "bounded" run draws any
\* names, with or without an error, within MaxTotal; a "resilience" run is
\* the scenario of ResilienceNames; a "single" run is one source returning up
\* to three names.
MayReturn(p) ==
    CASE world = "bounded" ->
           { o \in Outcomes(RawNames, MaxTotal) :
               TotalLen(names, nsrc) + Len(o[1]) <= MaxTotal }
      [] world = "resilience" ->
           { << ResilienceNames[p], FALSE >>, << << >>, TRUE >> }
      [] world = "single" ->
           Outcomes(RawNames, 3)

\* ------------------------------------------------------------------- Init

InitPipe ==
    /\ domain \in Domains
    /\ world \in {"bounded", "resilience", "single"}
    /\ nsrc \in CASE world = "bounded" -> 1..MaxSources
                 [] world = "resilience" -> {Len(ResilienceNames)}
                 [] world = "single" -> {1}
    /\ mainpc = "start"
    /\ k = 1
    /\ out = "nil"
    /\ closes = 0
    /\ wg = 0
    /\ ppc = [p \in 1..nsrc |-> "idle"]
    /\ names = [p \in 1..nsrc |-> << >>]
    /\ err = [p \in 1..nsrc |-> FALSE]
    /\ idx = [p \in 1..nsrc |-> 1]
    /\ calls = [p \in 1..nsrc |-> << >>]
    /\ cpc = "idle"
    /\ cur = << >>
    /\ printed = {}
    /\ stdout = << >>
    /\ stderr = << >>
    /\ received = << >>

InitCleanIdle ==
    /\ arg = << >>
    /\ ret = << >>
    /\ ret2 = << >>
    /\ cdpc = 0

Init == InitPipe /\ InitCleanIdle

\* ------------------------------------------------------------------- main

\* CheckDomain without the return of line 22.
CheckDomainNoReturn ==
    /\ mainpc = "start"
    /\ stdout' = IF domain = << >> THEN Append(stdout, DiagLine) ELSE stdout
    /\ out' = "open"
    /\ mainpc' = "launch"
    /\ UNCHANGED << domain, nsrc, world, k, closes, wg, ppc, names, err, idx,
                    calls, cpc, cur, printed, stderr, received, cleanVars >>

\* Lines 19-34: no domain, the diagnostic and return; otherwise sources, out
\* and wg are set up.
CheckDomain ==
    /\ mainpc = "start"
    /\ IF domain = << >>
       THEN /\ stdout' = Append(stdout, DiagLine)
            /\ mainpc' = "done"
            /\ out' = out
       ELSE /\ out' = "open"
            /\ mainpc' = "launch"
            /\ stdout' = stdout
    /\ UNCHANGED << domain, nsrc, world, k, closes, wg, ppc, names, err, idx,
                    calls, cpc, cur, printed, stderr, received, cleanVars >>

\* Launch without the wg.Add(1) of line 38.
LaunchNoAdd ==
    /\ mainpc = "launch"
    /\ k <= nsrc
    /\ ppc' = [ppc EXCEPT ![k] = "call"]
    /\ k' = k + 1
    /\ UNCHANGED << domain, nsrc, world, mainpc, out, closes, wg, names, err,
                    idx, calls, cpc, cur, printed, stdout, stderr, received,
                    cleanVars >>

\* Lines 37-55, one iteration: wg.Add(1) and the go statement.
Launch ==
    /\ mainpc = "launch"
    /\ k <= nsrc
    /\ wg' = wg + 1
    /\ ppc' = [ppc EXCEPT ![k] = "call"]
    /\ k' = k + 1
    /\ UNCHANGED << domain, nsrc, world, mainpc, out, closes, names, err, idx,
                    calls, cpc, cur, printed, stdout, stderr, received,
                    cleanVars >>

\* Lines 58-64: the closing goroutine is started, printed is made, and main
\* enters its range over out.
SpawnCloser ==
    /\ mainpc = "launch"
    /\ k > nsrc
    /\ cpc' = "wait"
    /\ printed' = {}
    /\ mainpc' = "recv"
    /\ UNCHANGED << domain, nsrc, world, k, out, closes, wg, ppc, names, err,
                    idx, calls, cur, stdout, stderr, received, cleanVars >>

\* ------------------------------------------------------ a source's goroutine

\* Line 44: the goroutine, once running, calls fn(domain).
Call(p) ==
    /\ ppc[p] = "call"
    /\ calls' = [calls EXCEPT ![p] = Append(@, domain)]
    /\ ppc' = [ppc EXCEPT ![p] = "fetch"]
    /\ UNCHANGED << domain, nsrc, world, mainpc, k, out, closes, wg, names,
                    err, idx, cpc, cur, printed, stdout, stderr, received,
                    cleanVars >>

\* Fetch without the test of line 46.
FetchIgnoreErr(p) ==
    /\ ppc[p] = "fetch"
    /\ \E o \in MayReturn(p) :
          /\ names' = [names EXCEPT ![p] = o[1]]
          /\ err' = [err EXCEPT ![p] = o[2]]
          /\ ppc' = [ppc EXCEPT ![p] = "send"]
    /\ UNCHANGED << domain, nsrc, world, mainpc, k, out, closes, wg, idx,
                    calls, cpc, cur, printed, stdout, stderr, received,
                    cleanVars >>

\* Lines 44-46: fn(domain) returns, names and err are assigned, and err is
\* tested. Between Call and this step the fetch waits for the network.
Fetch(p) ==
    /\ ppc[p] = "fetch"
    /\ \E o \in MayReturn(p) :
          /\ names' = [names EXCEPT ![p] = o[1]]
          /\ err' = [err EXCEPT ![p] = o[2]]
          /\ ppc' = [ppc EXCEPT ![p] = IF o[2] THEN "report" ELSE "send"]
    /\ UNCHANGED << domain, nsrc, world, mainpc, k, out, closes, wg, idx,
                    calls, cpc, cur, printed, stdout, stderr, received,
                    cleanVars >>

\* ReportError without the return of line 48.
ReportErrorNoReturn(p) ==
    /\ ppc[p] = "report"
    /\ stderr' = Append(stderr, p)
    /\ ppc' = [ppc EXCEPT ![p] = "send"]
    /\ UNCHANGED << domain, nsrc, world, mainpc, k, out, closes, wg, names,
                    err, idx, calls, cpc, cur, printed, stdout, received,
                    cleanVars >>

\* ReportError that calls the fetch again after an error.
ReportErrorRetry(p) ==
    /\ ppc[p] = "report"
    /\ stderr' = Append(stderr, p)
    /\ ppc' = [ppc EXCEPT ![p] = "call"]
    /\ UNCHANGED << domain, nsrc, world, mainpc, k, out, closes, wg, names,
                    err, idx, calls, cpc, cur, printed, stdout, received,
                    cleanVars >>

\* ReportError without the Fprintf of line 47.
ReportErrorSilent(p) ==
    /\ ppc[p] = "report"
    /\ ppc' = [ppc EXCEPT ![p] = "return"]
    /\ UNCHANGED << domain, nsrc, world, mainpc, k, out, closes, wg, names,
                    err, idx, calls, cpc, cur, printed, stdout, stderr,
                    received, cleanVars >>

\* Lines 47-48: the error is written to standard error, and the goroutine
\* returns.
ReportError(p) ==
    /\ ppc[p] = "report"
    /\ stderr' = Append(stderr, p)
    /\ ppc' = [ppc EXCEPT ![p] = "return"]
    /\ UNCHANGED << domain, nsrc, world, mainpc, k, out, closes, wg, names, err,
                    idx, calls, cpc, cur, printed, stdout, received,
                    cleanVars >>

\* Send that waits until every source's fetch has returned.
SendAfterAllFetched(p) ==
    /\ ppc[p] = "send"
    /\ \A q \in Sources : ppc[q] # "fetch"
    /\ idx[p] <= Len(names[p])
    /\ out = "open"
    /\ mainpc = "recv"
    /\ cur' = names[p][idx[p]]
    /\ received' = Append(received, << p, names[p][idx[p]] >>)
    /\ idx' = [idx EXCEPT ![p] = @ + 1]
    /\ mainpc' = "clean"
    /\ UNCHANGED << domain, nsrc, world, k, out, closes, wg, ppc, names, err,
                    calls, cpc, printed, stdout, stderr, cleanVars >>

\* Lines 52 and 66: out is unbuffered, so a send completes together with
\* main's receive.
Send(p) ==
    /\ ppc[p] = "send"
    /\ idx[p] <= Len(names[p])
    /\ out = "open"
    /\ mainpc = "recv"
    /\ cur' = names[p][idx[p]]
    /\ received' = Append(received, << p, names[p][idx[p]] >>)
    /\ idx' = [idx EXCEPT ![p] = @ + 1]
    /\ mainpc' = "clean"
    /\ UNCHANGED << domain, nsrc, world, k, out, closes, wg, ppc, names, err,
                    calls, cpc, printed, stdout, stderr, cleanVars >>

\* Return that can leave the range over names early.
ReturnEarly(p) ==
    /\ ppc[p] \in {"return", "send"}
    /\ wg' = wg - 1
    /\ ppc' = [ppc EXCEPT ![p] = "done"]
    /\ UNCHANGED << domain, nsrc, world, mainpc, k, out, closes, names, err,
                    idx, calls, cpc, cur, printed, stdout, stderr, received,
                    cleanVars >>

\* Return without the deferred wg.Done() of line 42.
ReturnNoDone(p) ==
    /\ \/ ppc[p] = "return"
       \/ ppc[p] = "send" /\ idx[p] > Len(names[p])
    /\ ppc' = [ppc EXCEPT ![p] = "done"]
    /\ UNCHANGED << domain, nsrc, world, mainpc, k, out, closes, wg, names,
                    err, idx, calls, cpc, cur, printed, stdout, stderr,
                    received, cleanVars >>

\* Line 42: the function returns, after the error or at the end of names, and
\* the deferred wg.Done() runs.
Return(p) ==
    /\ \/ ppc[p] = "return"
       \/ ppc[p] = "send" /\ idx[p] > Len(names[p])
    /\ wg' = wg - 1
    /\ ppc' = [ppc EXCEPT ![p] = "done"]
    /\ UNCHANGED << domain, nsrc, world, mainpc, k, out, closes, names, err,
                    idx, calls, cpc, cur, printed, stdout, stderr, received,
                    cleanVars >>

\* ---------------------------------------------------- the closing goroutine

\* Wait that returns whatever the counter is.
WaitNoGuard ==
    /\ cpc = "wait"
    /\ cpc' = "close"
    /\ UNCHANGED << domain, nsrc, world, mainpc, k, out, closes, wg, ppc,
                    names, err, idx, calls, cur, printed, stdout, stderr,
                    received, cleanVars >>

\* Line 59: wg.Wait() returns once the counter is zero.
Wait ==
    /\ cpc = "wait"
    /\ wg = 0
    /\ cpc' = "close"
    /\ UNCHANGED << domain, nsrc, world, mainpc, k, out, closes, wg, ppc, names,
                    err, idx, calls, cur, printed, stdout, stderr, received,
                    cleanVars >>

\* Line 60: close(out).
Close ==
    /\ cpc = "close"
    /\ out' = "closed"
    /\ closes' = closes + 1
    /\ cpc' = "done"
    /\ UNCHANGED << domain, nsrc, world, mainpc, k, wg, ppc, names, err, idx,
                    calls, cur, printed, stdout, stderr, received, cleanVars >>

\* ---------------------------------------------------------- main's range

\* CleanCheck that looks n up in printed before cleaning it.
CleanCheckRaw ==
    /\ mainpc = "clean"
    /\ cur' = cleanDomain(cur)
    /\ mainpc' = IF cur \in printed THEN "recv" ELSE "print"
    /\ UNCHANGED << domain, nsrc, world, k, out, closes, wg, ppc, names, err,
                    idx, calls, cpc, printed, stdout, stderr, received,
                    cleanVars >>

\* Lines 67-70: n is cleaned; a name already in printed is skipped.
CleanCheck ==
    /\ mainpc = "clean"
    /\ cur' = cleanDomain(cur)
    /\ mainpc' = IF cleanDomain(cur) \in printed THEN "recv" ELSE "print"
    /\ UNCHANGED << domain, nsrc, world, k, out, closes, wg, ppc, names, err,
                    idx, calls, cpc, printed, stdout, stderr, received,
                    cleanVars >>

\* PrintName that puts the name before the lines already written.
PrintNameFront ==
    /\ mainpc = "print"
    /\ stdout' = << cur >> \o stdout
    /\ mainpc' = "record"
    /\ UNCHANGED << domain, nsrc, world, k, out, closes, wg, ppc, names, err,
                    idx, calls, cpc, cur, printed, stderr, received,
                    cleanVars >>

\* Line 71: fmt.Println(n).
PrintName ==
    /\ mainpc = "print"
    /\ stdout' = Append(stdout, cur)
    /\ mainpc' = "record"
    /\ UNCHANGED << domain, nsrc, world, k, out, closes, wg, ppc, names, err,
                    idx, calls, cpc, cur, printed, stderr, received,
                    cleanVars >>

\* Record without the assignment of line 72.
RecordNothing ==
    /\ mainpc = "record"
    /\ mainpc' = "recv"
    /\ UNCHANGED << domain, nsrc, world, k, out, closes, wg, ppc, names, err,
                    idx, calls, cpc, cur, printed, stdout, stderr, received,
                    cleanVars >>

\* Line 72: printed[n] = true.
Record ==
    /\ mainpc = "record"
    /\ printed' = printed \cup {cur}
    /\ mainpc' = "recv"
    /\ UNCHANGED << domain, nsrc, world, k, out, closes, wg, ppc, names, err,
                    idx, calls, cpc, cur, stdout, stderr, received,
                    cleanVars >>

\* RangeEnd that does not wait for out to be closed.
RangeEndAnytime ==
    /\ mainpc = "recv"
    /\ mainpc' = "done"
    /\ UNCHANGED << domain, nsrc, world, k, out, closes, wg, ppc, names, err,
                    idx, calls, cpc, cur, printed, stdout, stderr, received,
                    cleanVars >>

\* Lines 66 and 74: the range over out ends once out is closed, and main
\* returns.
RangeEnd ==
    /\ mainpc = "recv"
    /\ out = "closed"
    /\ mainpc' = "done"
    /\ UNCHANGED << domain, nsrc, world, k, out, closes, wg, ppc, names, err,
                    idx, calls, cpc, cur, printed, stdout, stderr, received,
                    cleanVars >>

\* -------------------------------------------------------------------- Spec

Next ==
    \/ CheckDomain
    \/ Launch
    \/ SpawnCloser
    \/ \E p \in Sources : Call(p)
    \/ \E p \in Sources : Fetch(p)
    \/ \E p \in Sources : ReportError(p)
    \/ \E p \in Sources : Send(p)
    \/ \E p \in Sources : Return(p)
    \/ Wait
    \/ Close
    \/ CleanCheck
    \/ PrintName
    \/ Record
    \/ RangeEnd

Spec == Init /\ [][Next]_vars

\* Every source of any run.
SourceIds ==
    1..(IF MaxSources > Len(ResilienceNames)
        THEN MaxSources ELSE Len(ResilienceNames))

\* The scheduler runs every goroutine that can take a step, and every fetch
\* returns: each step that stays possible is taken.
Fairness ==
    /\ WF_vars(CheckDomain)
    /\ WF_vars(Launch)
    /\ WF_vars(SpawnCloser)
    /\ \A p \in SourceIds : WF_vars(p \in Sources /\ Fetch(p))
    /\ \A p \in SourceIds : WF_vars(p \in Sources /\ Call(p))
    /\ \A p \in SourceIds : WF_vars(p \in Sources /\ ReportError(p))
    /\ \A p \in SourceIds : WF_vars(p \in Sources /\ Return(p))
    /\ WF_vars(\E p \in Sources : Send(p))
    /\ WF_vars(Wait)
    /\ WF_vars(Close)
    /\ WF_vars(CleanCheck)
    /\ WF_vars(PrintName)
    /\ WF_vars(Record)
    /\ WF_vars(RangeEnd)

LiveSpec == Spec /\ Fairness

\* The scheduler runs every goroutine that can take a step, but a fetch need
\* not return.
FairnessButFetch ==
    /\ WF_vars(CheckDomain)
    /\ WF_vars(Launch)
    /\ WF_vars(SpawnCloser)
    /\ \A p \in SourceIds : WF_vars(p \in Sources /\ Call(p))
    /\ \A p \in SourceIds : WF_vars(p \in Sources /\ ReportError(p))
    /\ \A p \in SourceIds : WF_vars(p \in Sources /\ Return(p))
    /\ WF_vars(\E p \in Sources : Send(p))
    /\ WF_vars(Wait)
    /\ WF_vars(Close)
    /\ WF_vars(CleanCheck)
    /\ WF_vars(PrintName)
    /\ WF_vars(Record)
    /\ WF_vars(RangeEnd)

HangSpec == Spec /\ FairnessButFetch

\* --------------------------------------------- cleanDomain on its own

\* cleanDomain is applied to every string over Alphabet of at most MaxLen
\* characters, and then to its own result; main has not started.
InitClean ==
    /\ InitPipe
    /\ domain = << >>
    /\ world = "single"
    /\ arg \in SeqsUpTo(Alphabet, MaxLen)
    /\ ret = << >>
    /\ ret2 = << >>
    /\ cdpc = 0

CleanOnce ==
    /\ cdpc = 0
    /\ ret' = cleanDomain(arg)
    /\ cdpc' = 1
    /\ UNCHANGED << pipeVars, arg, ret2 >>

CleanAgain ==
    /\ cdpc = 1
    /\ ret2' = cleanDomain(ret)
    /\ cdpc' = 2
    /\ UNCHANGED << pipeVars, arg, ret >>

NextClean == CleanOnce \/ CleanAgain

SpecClean == InitClean /\ [][NextClean]_vars

\* ------------------------------------------------- what the claims speak of

\* The names main's range has printed: standard output without the
\* diagnostic.
Emitted == SelectSeq(stdout, LAMBDA l : l # DiagLine)

SetOf(s) == { s[i] : i \in 1..Len(s) }

Front(s) == SubSeq(s, 1, Len(s) - 1)

\* The names received from source p, in the order received.
RECURSIVE FromSource(_, _)
FromSource(r, p) ==
    IF r = << >> THEN << >>
    ELSE IF r[Len(r)][1] = p
         THEN Append(FromSource(Front(r), p), r[Len(r)][2])
         ELSE FromSource(Front(r), p)

\* The first occurrences of s, in order.
RECURSIVE FirstSeen(_)
FirstSeen(s) ==
    IF s = << >> THEN << >>
    ELSE LET f == FirstSeen(Front(s))
         IN  IF s[Len(s)] \in SetOf(f) THEN f ELSE Append(f, s[Len(s)])

\* The received names, cleaned.
Cleaned(r) == [i \in 1..Len(r) |-> cleanDomain(r[i][2])]

\* The sources whose fetch has returned without an error.
Succeeded == { p \in Sources : ppc[p] \notin {"idle", "call", "fetch"} /\ ~err[p] }

\* The sources whose fetch has returned an error.
Failed == { p \in Sources : ppc[p] \notin {"idle", "call", "fetch"} /\ err[p] }

\* The names the sources that succeeded returned, cleaned.
CleanedUnion ==
    UNION { { cleanDomain(names[p][i]) : i \in 1..Len(names[p]) } :
            p \in Succeeded }

AllDone == \A p \in Sources : ppc[p] = "done"

\* ------------------------------------------------------------------ claims

\* C1: in every reachable state the names printed so far hold no name twice,
\* whatever the sources returned and however their sends interleaved.
C1_NoNameTwice ==
    \A i, j \in 1..Len(Emitted) : i # j => Emitted[i] # Emitted[j]

\* C1 witness: two different raw names that clean to the same name were both
\* received and handled.
C1_Witness ==
    /\ mainpc = "done"
    /\ \E i, j \in 1..Len(received) :
          /\ received[i][2] # received[j][2]
          /\ cleanDomain(received[i][2]) = cleanDomain(received[j][2])

\* C2: once out is closed, what was received from each source that succeeded
\* is exactly what it returned, in its order.
C2_MergedPerSource ==
    out = "closed" =>
        \A p \in Succeeded : FromSource(received, p) = names[p]

\* C2 witness: out is closed and a name of another source was received
\* between two names of one source.
C2_Witness ==
    /\ out = "closed"
    /\ \E i, j, l \in 1..Len(received) :
          /\ i < j /\ j < l
          /\ received[i][1] = received[l][1]
          /\ received[i][1] # received[j][1]

\* C3: when main has returned, the set of names printed is the set of the
\* cleaned names of the sources that succeeded.
C3_OutputIsCleanedUnion ==
    mainpc = "done" => SetOf(Emitted) = CleanedUnion

\* C3 witness: main has returned having printed a name, and a source that
\* failed had returned another name, which was not printed.
C3_Witness ==
    /\ mainpc = "done"
    /\ Len(Emitted) >= 1
    /\ \E p \in Failed :
          /\ names[p] # << >>
          /\ cleanDomain(names[p][1]) \notin SetOf(Emitted)

\* C4: out is closed at most once, only when every source's goroutine has
\* returned, and exactly once by the time main's range has ended; so no
\* goroutine is running, sending or blocked when out is closed or after.
C4_ClosedOnceAfterAll ==
    /\ closes <= 1
    /\ (out = "closed") = (closes = 1)
    /\ cpc = "close" => AllDone
    /\ out = "closed" => AllDone
    /\ (mainpc = "done" /\ domain # << >>) => closes = 1

\* C4 witness: out is closed after names went through it and a source failed.
C4_Witness ==
    /\ out = "closed"
    /\ received # << >>
    /\ Failed # {}

\* C5: nothing is ever received from a source that failed; when main has
\* returned every other source's names were all received, and what is printed
\* is the cleaned names of the sources that succeeded. With three sources of
\* which the second fails and the others return two names each, the four
\* names are printed.
C5_FailureIsContained ==
    /\ \A p \in Failed : FromSource(received, p) = << >>
    /\ mainpc = "done" =>
          /\ \A p \in Succeeded : FromSource(received, p) = names[p]
          /\ \A p \in Sources : p \in Succeeded \/ p \in Failed \/ domain = << >>
          /\ Len(Emitted) = Cardinality(CleanedUnion)
    /\ (world = "resilience" /\ mainpc = "done" /\ Failed = {2}) =>
          /\ SetOf(Emitted) =
                { <<"a", ".", "d">>, <<"b">>, <<"c">>, <<"e", ".", "d">> }
          /\ Len(Emitted) = 4

\* C5 witness: the run of three sources in which the second alone failed has
\* ended.
C5_Witness ==
    /\ world = "resilience"
    /\ mainpc = "done"
    /\ Failed = {2}
    /\ Len(stderr) = 1

\* C6: under fair scheduling, with every fetch returning, main returns.
C6_Terminates == <>(mainpc = "done")

\* C6 witness: main has returned from a run in which every source failed.
C6_Witness ==
    /\ mainpc = "done"
    /\ nsrc >= 2
    /\ Failed = Sources

\* The first characters cleanDomain removes.
Markers == {"*", "%", "."}

\* C7, as stated: cleanDomain applied twice gives what it gives applied once.
C7_Idempotent == cdpc = 2 => ret2 = ret

\* C7, amended: cleanDomain applied to its own result changes nothing exactly
\* when that result has fewer than two characters or begins with none of
\* '*', '%' and '.'.
C7_IdempotentUnlessMarkerLeft ==
    cdpc = 2 => ((ret2 = ret) <=> (Len(ret) < 2 \/ ret[1] \notin Markers))

\* C7 witness: a prefix was removed from the argument and the second
\* application changed nothing.
C7_Witness ==
    /\ cdpc = 2
    /\ Len(ret) >= 2
    /\ Len(ret) < Len(arg)
    /\ ret2 = ret

\* The first character of s dropped if it is in S.
DropIf(s, S) == IF s # << >> /\ Head(s) \in S THEN Tail(s) ELSE s

\* The procedure of spec section 4.3.
Normalize(x) ==
    LET l == [i \in DOMAIN x |-> ToLowerChar(x[i])]
    IN  IF Len(l) < 2 THEN l ELSE DropIf(DropIf(l, {"*", "%"}), {"."})

\* C8: cleanDomain returns what the procedure of spec section 4.3 returns,
\* for every string, and on the five examples of spec section 8.
C8_MatchesProcedure ==
    /\ cdpc >= 1 => ret = Normalize(arg)
    /\ cleanDomain(<<"*", ".", "E", "x", "a", "m", "p", "l", "e", ".", "C", "O", "M">>)
          = <<"e", "x", "a", "m", "p", "l", "e", ".", "c", "o", "m">>
    /\ cleanDomain(<<"%", "w", "w", "w", ".", "F", "o", "o", ".", "o", "r", "g">>)
          = <<"w", "w", "w", ".", "f", "o", "o", ".", "o", "r", "g">>
    /\ cleanDomain(<<".", "b", "a", "r", ".", "n", "e", "t">>)
          = <<"b", "a", "r", ".", "n", "e", "t">>
    /\ cleanDomain(<<"a">>) = <<"a">>
    /\ cleanDomain(<<"*", ".", "%", ".", "t", "e", "s", "t">>)
          = <<"%", ".", "t", "e", "s", "t">>

\* C8 witness: cleanDomain was applied to "*.%A" and removed "*." alone.
C8_Witness ==
    /\ cdpc >= 1
    /\ arg = <<"*", ".", "%", "A">>
    /\ ret = <<"%", "a">>

\* C9, as stated: in every state printed is the set of the names printed.
C9_SeenIsEmitted == printed = SetOf(Emitted)

\* C9, amended: printed is the set of the names printed except between
\* lines 71 and 72, where it lacks the name just printed and nothing else; it
\* never holds a name that was not printed.
C9_SeenIsEmittedButLast ==
    /\ mainpc # "record" => printed = SetOf(Emitted)
    /\ mainpc = "record" =>
          /\ cur \notin printed
          /\ Emitted # << >>
          /\ Emitted[Len(Emitted)] = cur
          /\ printed = SetOf(Emitted) \ {cur}

\* C9 witness: a second name has been printed and is not yet in printed.
C9_Witness ==
    /\ mainpc = "record"
    /\ printed # {}

\* The received names main's range is done with.
Handled == IF mainpc \in {"clean", "print"} THEN Front(received) ELSE received

\* C10: the names printed are the first occurrences of the cleaned names in
\* the order received; one source alone returning names that stay apart
\* after cleaning has them printed in its order.
C10_FirstSeenOrder ==
    /\ Emitted = FirstSeen(Cleaned(Handled))
    /\ (nsrc = 1 /\ mainpc = "done" /\ Succeeded = {1}
          /\ Cardinality(CleanedUnion) = Len(names[1])) =>
          Emitted = [i \in 1..Len(names[1]) |-> cleanDomain(names[1][i])]

\* C10 witness: one source alone returned three names that stay apart after
\* cleaning, and main has returned.
C10_Witness ==
    /\ nsrc = 1
    /\ mainpc = "done"
    /\ Succeeded = {1}
    /\ Len(names[1]) = 3
    /\ Len(Emitted) = 3

\* C11: with no domain argument nothing but the diagnostic happens: no
\* goroutine is started, no fetch is called, out is never made nor written,
\* nothing is reported and no name is printed; main returns after the
\* diagnostic.
C11_NoDomainNoWork ==
    domain = << >> =>
        /\ out = "nil"
        /\ closes = 0
        /\ wg = 0
        /\ cpc = "idle"
        /\ \A p \in Sources : ppc[p] = "idle" /\ calls[p] = << >>
        /\ received = << >>
        /\ stderr = << >>
        /\ Emitted = << >>
        /\ mainpc \in {"start", "done"}
        /\ stdout = IF mainpc = "start" THEN << >> ELSE << DiagLine >>

\* C11 witness: main has returned from a run without a domain.
C11_Witness ==
    /\ domain = << >>
    /\ mainpc = "done"
    /\ stdout = << DiagLine >>

\* The sources whose fetch returned names together with an error.
FailedWithNames == { p \in Failed : names[p] # << >> }

\* C12, as stated: the names a fetch returned together with an error are in
\* the final output.
C12_PartialNamesKept ==
    mainpc = "done" =>
        \A p \in FailedWithNames : \A i \in 1..Len(names[p]) :
            cleanDomain(names[p][i]) \in SetOf(Emitted)

\* C12, amended: the names a fetch returned together with an error are never
\* sent on out, and one of them is in the final output only if a source that
\* succeeded returned it too.
C12_PartialNamesDropped ==
    \A p \in FailedWithNames :
        /\ idx[p] = 1
        /\ FromSource(received, p) = << >>
        /\ mainpc = "done" =>
              \A i \in 1..Len(names[p]) :
                  cleanDomain(names[p][i]) \in SetOf(Emitted)
                      <=> cleanDomain(names[p][i]) \in CleanedUnion

\* C12 witness: main has returned having printed nothing, though a fetch had
\* returned two names with its error.
C12_Witness ==
    /\ mainpc = "done"
    /\ Emitted = << >>
    /\ \E p \in FailedWithNames : Len(names[p]) = 2 /\ p \in SetOf(stderr)

\* How many lines of standard error report source p.
Reports(p) == Cardinality({ i \in 1..Len(stderr) : stderr[i] = p })

\* C13: a source is reported on standard error once when its fetch returned
\* an error and never otherwise; the report is written as soon as the error
\* is there, whatever main and out are doing, so it waits for neither; every
\* report is there when main's range has ended.
C13_OneReportPerFailure ==
    /\ \A p \in Sources :
          /\ Reports(p) <= 1
          /\ Reports(p) = 1 <=> (p \in Failed /\ ppc[p] # "report")
          /\ ppc[p] = "report" => ENABLED ReportError(p)
    /\ (mainpc = "done" /\ domain # << >>) =>
          /\ Len(stderr) = Cardinality(Failed)
          /\ SetOf(stderr) = Failed
          /\ Failed \cup Succeeded = Sources

\* C13 witness: main has returned from a run in which two sources were
\* reported and the names of the third were printed.
C13_Witness ==
    /\ mainpc = "done"
    /\ Len(stderr) = 2
    /\ Len(Emitted) = 2
    /\ Cardinality(Succeeded) = 1

\* The sources whose goroutine has not returned.
Unfinished == { p \in Sources : ppc[p] # "done" }

\* C14: main's range has ended only in states where every source's goroutine
\* has returned; while one has not (its fetch has not returned, say), out,
\* once made, stays open, the range cannot end, and with nothing to receive
\* main stays blocked in it.
C14_HungSourceBlocksRun ==
    /\ (mainpc = "done" /\ domain # << >>) => Unfinished = {}
    /\ (Unfinished # {} /\ out # "nil") =>
          /\ out = "open"
          /\ mainpc # "done"
          /\ ~ENABLED RangeEnd
          /\ ~ENABLED Close
    /\ (mainpc = "recv" /\ \A p \in Unfinished : ppc[p] = "fetch") =>
          \A p \in Sources : ~ENABLED Send(p)

\* C14 witness: every goroutine but one has returned, whose fetch was called
\* and has not returned;
\* names were printed, and main is blocked in its range with out open.
C14_Witness ==
    /\ nsrc >= 2
    /\ Cardinality(Unfinished) = 1
    /\ \A p \in Unfinished : ppc[p] = "fetch" /\ calls[p] = << domain >>
    /\ mainpc = "recv"
    /\ cpc = "wait"
    /\ out = "open"
    /\ Emitted # << >>

\* Every name source p returned has been received and is printed.
AllArrived(p) ==
    /\ FromSource(received, p) = names[p]
    /\ \A i \in 1..Len(names[p]) : cleanDomain(names[p][i]) \in SetOf(Emitted)

\* C15: under fair scheduling, once a source's fetch has returned without an
\* error, every name it returned is eventually received and printed (by now
\* or earlier, for a duplicate), whether or not any other fetch ever returns
\* and so whether or not out is ever closed.
C15_NamesArriveDespiteHang ==
    \A p \in SourceIds :
        [](p \in Succeeded => <>(p \in Sources /\ AllArrived(p)))

\* C15 witness: the names of one source are printed while another's fetch has
\* not returned and out is open.
C15_Witness ==
    /\ out = "open"
    /\ mainpc = "recv"
    /\ \E p \in Succeeded, q \in Sources :
          /\ ppc[q] = "fetch"
          /\ Len(names[p]) = 2
          /\ AllArrived(p)

\* C16: with a domain, the launch loop starts one goroutine for each source
\* in turn, and each goroutine calls its fetch once, with the domain, whether
\* the fetch then fails or not; when main has returned every fetch has been
\* called exactly once.
C16_OneFetchPerSource ==
    /\ \A p \in Sources :
          /\ ppc[p] # "idle" <=> (domain # << >> /\ mainpc # "start" /\ p < k)
          /\ calls[p] = IF ppc[p] \in {"idle", "call"} THEN << >>
                                                       ELSE << domain >>
    /\ mainpc \notin {"start", "launch"} /\ domain # << >> =>
          /\ k = nsrc + 1
          /\ \A p \in Sources : ppc[p] # "idle"
    /\ mainpc = "done" /\ domain # << >> =>
          \A p \in Sources : calls[p] = << domain >>

\* C16 witness: main has returned from a run of two sources or more, of which
\* one failed and one succeeded, each called once.
C16_Witness ==
    /\ mainpc = "done"
    /\ Failed # {}
    /\ Succeeded # {}
    /\ \A p \in Sources : Len(calls[p]) = 1

\* C17: the WaitGroup's counter is never negative and counts the goroutines
\* started and not yet returned; the closing goroutine exists only after the
\* launch loop has added every source, from when on the counter is the number
\* of sources whose goroutine has not returned; so wg.Wait() cannot return
\* while a goroutine is fetching, sending or blocked.
C17_CounterIsOutstanding ==
    /\ wg >= 0
    /\ wg = Cardinality({ p \in Sources : ppc[p] \notin {"idle", "done"} })
    /\ cpc # "idle" =>
          /\ k = nsrc + 1
          /\ wg = Cardinality(Unfinished)
    /\ Unfinished # {} => ~ENABLED Wait
    /\ cpc \in {"close", "done"} => Unfinished = {}

\* C17 witness: the closing goroutine waits while the counter is 2, one
\* goroutine fetching and one blocked in its send because main is busy.
C17_Witness ==
    /\ cpc = "wait"
    /\ wg = 2
    /\ mainpc = "print"
    /\ \E p, q \in Sources :
          /\ ppc[p] = "fetch"
          /\ ppc[q] = "send" /\ idx[q] = 2 /\ Len(names[q]) = 2

\* C18: cleanDomain is total: whatever the string, every d[0] it evaluates
\* finds a character (the test of line 205 at least one, after line 202 took
\* one of at least two), and it returns a lower-case string at most two
\* characters shorter, which may be empty.
C18_CleanDomainTotal ==
    /\ cdpc >= 1 =>
          /\ \A i \in 1..Len(IndexedLens(arg)) : IndexedLens(arg)[i] >= 1
          /\ Len(arg) >= 2 => Len(IndexedLens(arg)) = 2
          /\ ret \in SeqsUpTo({ ToLowerChar(c) : c \in Alphabet }, Len(arg))
          /\ Len(ret) >= Len(arg) - 2
    /\ cleanDomain(<< >>) = << >>
    /\ cleanDomain(<<"*">>) = <<"*">>
    /\ cleanDomain(<<".">>) = <<".">>
    /\ cleanDomain(<<"*", ".">>) = << >>
    /\ cleanDomain(<<"*", "*">>) = <<"*">>
    /\ cleanDomain(<<"%", ".">>) = << >>

\* C18 witness: cleanDomain was applied to "*." and returned the empty
\* string, its second test having found the one character left.
C18_Witness ==
    /\ cdpc >= 1
    /\ arg = <<"*", ".">>
    /\ IndexedLens(arg) = << 2, 1 >>
    /\ ret = << >>

====
